---------------------------- MODULE Spec2Model ----------------------------
(***************************************************************************)
(* Dead Reckoning budget simulation (src/main.py).                         *)
(*                                                                         *)
(* Money is modelled in whole dollars, allocation fractions in whole       *)
(* percent, and a Defense's budget_money in hundredths of a dollar         *)
(* (percent * dollars), so that every quotient of the source is compared   *)
(* by cross-multiplication in exact integer arithmetic.  Binary64         *)
(* rounding of the source's floats is not modelled.                        *)
(*                                                                         *)
(* A pandas/numpy "not a number" is the value NaN below: every ordering    *)
(* comparison with it is false, and int() of it raises ValueError.         *)
(***************************************************************************)
EXTENDS Integers, Sequences, FiniteSets, TLC

(***************************************************************************)
(* Configuration of the simulated run.  The source sets 30, 10000, 1000,   *)
(* 500 and 90 (src/main.py:15-19); the run is checked on a scaled-down     *)
(* configuration with the same shape: a window shorter than the run, a cap *)
(* that a few releases exhaust, a ceiling below the largest amount.        *)
(***************************************************************************)
BUDGET_DAYS == 1

BUDGET_MONEY == 3

AVG_TX_COUNT_PER_DAY == 1

MAX_TX_AMOUNT == 2

DAYS_TO_SIMULATE == 5

\* Largest dollar amount the transaction source draws (the source draws a
\* real from triangular(1, 100, 1000)); amounts are 1..MaxAmount.
MaxAmount == 3

\* Largest random draw explored: random.randint(0, n) is explored on
\* 0..Min(n, MaxDraw).
MaxDraw == 2

\* Bounds of the directly driven calls (Budget API, evaluate_if_released).
MaxDefenses == 4

MaxLedger == 2

MaxDay == 3

Names == {"d1", "d2", "d3", "d4"}

NaN == "NaN"

Min(a, b) == IF a <= b THEN a ELSE b

Max(a, b) == IF a >= b THEN a ELSE b

VARIABLES
    budget,         \* the Budget object: budget_money, budget_days, defenses
    historical_tx,  \* every transaction seen, in append order
    released_tx,    \* the transactions released, in append order
    pc,             \* position of the running program
    day,            \* loop variable `day` of init_historical / simulate
    i,              \* loop variable `i`
    out             \* outcome of the last call / step

vars == <<budget, historical_tx, released_tx, pc, day, i, out>>

-----------------------------------------------------------------------------
(* Sequences helpers *)

RECURSIVE SumAmounts(_)
SumAmounts(s) ==
    IF s = <<>> THEN 0 ELSE Head(s).send_amount_usd + SumAmounts(Tail(s))

RECURSIVE SumBudgetMoney(_)
SumBudgetMoney(s) ==
    IF s = <<>> THEN 0 ELSE Head(s).budget_money + SumBudgetMoney(Tail(s))

Days(s) == {s[k].day : k \in 1..Len(s)}

\* Mutant: the frame returned by append is dropped.
AppendRecord_Dropped(frame, record) == frame

\* frame = frame.append(pd.DataFrame(record, index=[0]), ignore_index=True)
\* Mutant: the new row is put in front of the frame.
AppendRecord_Prepend(frame, record) == <<record>> \o frame

AppendRecord(frame, record) == Append(frame, record)

-----------------------------------------------------------------------------
(* class Trasaction *)

\* The flag combinations the transaction source is explored on: no flag,
\* d4 alone, d1 alone, all four.
FlagChoices ==
    { [n \in Names |-> FALSE],
      [n \in Names |-> n = "d4"],
      [n \in Names |-> n = "d1"],
      [n \in Names |-> TRUE] }

Amounts == 1..MaxAmount

\* np.array([d1, d2, d3, d4]).sum().astype(bool): a numpy.bool_ object.
FlagsSumAsBool(f) ==
    [type |-> "numpy.bool_", value |-> Cardinality({n \in Names : f[n]}) # 0]

\* `x is False`: identity with Python's False singleton.
IsFalse(x) == x.type = "bool" /\ x.value = FALSE

\* Mutant: the loop condition never becomes false.
RegenerateFlags_Forever(first, f) == TRUE

\* Loop condition of the constructor, line 35.
RegenerateFlags(first, f) == first \/ IsFalse(FlagsSumAsBool(f))

\* The objects Trasaction() can return: the loop body runs, and runs again
\* while the condition holds, so the result is a draw on which it is false.
Trasaction ==
    { [d1 |-> f["d1"], d2 |-> f["d2"], d3 |-> f["d3"], d4 |-> f["d4"],
       send_amount_usd |-> a] :
         f \in {g \in FlagChoices : ~RegenerateFlags(FALSE, g)},
         a \in Amounts }

\* record = tx.__dict__; record['day'] = day
Record(tx, d) ==
    [d1 |-> tx.d1, d2 |-> tx.d2, d3 |-> tx.d3, d4 |-> tx.d4,
     send_amount_usd |-> tx.send_amount_usd, day |-> d]

-----------------------------------------------------------------------------
(* Numeric results: a quotient num/den (den > 0), NaN, or an exception.   *)

Num(n, d) == [kind |-> "num", num |-> n, den |-> d]

NotANumber == [kind |-> NaN, num |-> 0, den |-> 1]

Raise(exc) == [kind |-> exc, num |-> 0, den |-> 1]

IsRaise(v) == v.kind \notin {"num", NaN}

\* Mutant: a NaN threshold lets every draw pass.
LessThan_NaNPasses(r, t) == t.kind = NaN \/ (t.kind = "num" /\ r * t.den < t.num)

\* r < t for an int r and a numeric result t; False when t is NaN.
LessThan(r, t) == t.kind = "num" /\ r * t.den < t.num

-----------------------------------------------------------------------------
(* class Defense *)

Defense(name, budget_money, budget_days) ==
    [name |-> name, budget_money |-> budget_money, budget_days |-> budget_days]

\* h_tx.loc[h_tx[self.name] == True]; init_historical's pd.DataFrame() has
\* no columns until the first append, so the column lookup raises KeyError.
HasColumn(h_tx) == h_tx # <<>>

defense_tx(d, h_tx) == SelectSeq(h_tx, LAMBDA r : r[d.name])

\* Mutant: rows of the current day and later are left out.
average_historical_send_amount_HalfOpen(d, h_tx, dy) ==
    IF ~HasColumn(h_tx) THEN Raise("KeyError")
    ELSE LET rows == SelectSeq(defense_tx(d, h_tx),
                        LAMBDA r : /\ r.day >= Max(dy - d.budget_days, 0)
                                   /\ r.day < dy
                                   /\ r.send_amount_usd <= MAX_TX_AMOUNT)
         IN  IF rows = <<>> THEN NotANumber
             ELSE Num(SumAmounts(rows), Len(rows))

average_historical_send_amount(d, h_tx, dy) ==
    IF ~HasColumn(h_tx) THEN Raise("KeyError")
    ELSE LET rows == SelectSeq(defense_tx(d, h_tx),
                        LAMBDA r : /\ r.day >= Max(dy - d.budget_days, 0)
                                   /\ r.send_amount_usd <= MAX_TX_AMOUNT)
         IN  IF rows = <<>> THEN NotANumber
             ELSE Num(SumAmounts(rows), Len(rows))

\* (budget_money / (average * budget_days)) * 10 + 1, budget_money being
\* kept in hundredths.
target_rate(d, h_tx, dy) ==
    LET avg == average_historical_send_amount(d, h_tx, dy)
    IN  IF avg.kind # "num" THEN avg
        ELSE Num(10 * d.budget_money * avg.den + 100 * avg.num * d.budget_days,
                 100 * avg.num * d.budget_days)

\* Mutant: the target rate is returned whether or not the defense flagged.
threshold_Unflagged(d, transaction, h_tx, dy) == target_rate(d, h_tx, dy)

threshold(d, transaction, h_tx, dy) ==
    IF transaction[d.name] THEN target_rate(d, h_tx, dy) ELSE Num(0, 1)

\* int(daily_counts.mean()): the mean over the days that have a flagged
\* row; int(nan) raises ValueError.
average_count_per_day(d, h_tx) ==
    IF ~HasColumn(h_tx) THEN Raise("KeyError")
    ELSE LET rows == defense_tx(d, h_tx)
         IN  IF rows = <<>> THEN Raise("ValueError")
             ELSE Num(Len(rows) \div Cardinality(Days(rows)), 1)

\* The values random.randint(0, average_count_per_day * 10) can return.
random_value(d, h_tx) ==
    LET n == average_count_per_day(d, h_tx)
    IN  IF IsRaise(n) THEN {} ELSE 0..Min(n.num * 10, MaxDraw)

-----------------------------------------------------------------------------
(* class Budget *)

Budget(budget_money, budget_days) ==
    [budget_money |-> budget_money, budget_days |-> budget_days,
     defenses |-> <<>>]

\* (total_allocated, not_allocated), both in percent.
budget_allocation(b) ==
    LET total_allocated == SumBudgetMoney(b.defenses) \div b.budget_money
    IN  <<total_allocated, 100 - total_allocated>>

\* Mutant: the allocation already registered is not counted.
AllocationOverflow_Alone(b, allocation) == allocation > 100

\* Mutant: an allocation that reaches exactly 1 is rejected too.
AllocationOverflow_AtOne(b, allocation) ==
    allocation + budget_allocation(b)[1] >= 100

\* The condition under which add_defense raises, line 157.
AllocationOverflow(b, allocation) == allocation + budget_allocation(b)[1] > 100

\* The Budget after add_defense(name, allocation) returned normally.
add_defense(b, name, allocation) ==
    [b EXCEPT !.defenses =
        Append(@, Defense(name, allocation * b.budget_money, b.budget_days))]

\* remove_defense: `temp` collects every defense with another name; `found`
\* is initialised False and never assigned again.
RemoveFound(b, name) == FALSE

\* Mutant: the comparison is inverted, the named defenses are the ones kept.
remove_defense_Inverted(b, name) ==
    [b EXCEPT !.defenses = SelectSeq(@, LAMBDA d : d.name = name)]

\* Mutant: only the first defense of that name is dropped.
remove_defense_First(b, name) ==
    LET hit == {k \in DOMAIN b.defenses : b.defenses[k].name = name}
    IN  IF hit = {} THEN b
        ELSE LET f == CHOOSE k \in hit : \A m \in hit : k <= m
             IN  [b EXCEPT !.defenses =
                    [k \in 1..(Len(@) - 1) |-> IF k < f THEN @[k] ELSE @[k + 1]]]

remove_defense(b, name) ==
    [b EXCEPT !.defenses = SelectSeq(@, LAMBDA d : d.name # name)]

\* The module-level budget, lines 179-183.
ModuleBudget ==
    add_defense(
      add_defense(
        add_defense(
          add_defense(Budget(BUDGET_MONEY, BUDGET_DAYS), "d1", 10),
          "d2", 30),
        "d3", 55),
      "d4", 5)

-----------------------------------------------------------------------------
(* evaluate_if_released *)

\* The vectors of draws line 202 can produce: one per registered defense.
RandomValues(b, h_tx) ==
    { rv \in [1..Len(b.defenses) -> 0..MaxDraw] :
        \A k \in 1..Len(b.defenses) : rv[k] \in random_value(b.defenses[k], h_tx) }

Thresholds(b, tx, dy, h_tx) ==
    [k \in 1..Len(b.defenses) |-> threshold(b.defenses[k], tx, h_tx, dy)]

\* Mutant: the window starts one day late.
WindowSpend_LateStart(r_tx, dy) ==
    SumAmounts(SelectSeq(r_tx, LAMBDA r : r.day > Max(dy - BUDGET_DAYS, 1)))

\* r_tx[r_tx['day'] >= max(day - BUDGET_DAYS, 1)].send_amount_usd.sum()
WindowSpend(r_tx, dy) ==
    SumAmounts(SelectSeq(r_tx, LAMBDA r : r.day >= Max(dy - BUDGET_DAYS, 1)))

\* (random_values < thresholds).sum().astype(bool)
AnyBelow(random_values, thresholds) ==
    Cardinality({k \in DOMAIN thresholds :
                    LessThan(random_values[k], thresholds[k])}) # 0

\* The exception, if any, that line 199 raises: the first defense whose
\* threshold lookup fails.
ThresholdException(b, tx, dy, h_tx) ==
    LET th == Thresholds(b, tx, dy, h_tx)
        tr == {k \in DOMAIN th : IsRaise(th[k])}
    IN  IF tr = {} THEN "none"
        ELSE th[CHOOSE k \in tr : \A m \in tr : k <= m].kind

\* The exception, if any, that line 202 raises: the first defense whose
\* average_count_per_day fails.
DrawException(b, h_tx) ==
    LET cnt == [k \in 1..Len(b.defenses) |->
                    average_count_per_day(b.defenses[k], h_tx)]
        cr  == {k \in DOMAIN cnt : IsRaise(cnt[k])}
    IN  IF cr = {} THEN "none"
        ELSE cnt[CHOOSE k \in cr : \A m \in cr : k <= m].kind

\* Mutant: the cap test is strict.
ReleaseCondition_StrictCap(b, tx, dy, r_tx, thresholds, random_values) ==
    /\ tx.send_amount_usd <= MAX_TX_AMOUNT
    /\ WindowSpend(r_tx, dy) + tx.send_amount_usd < b.budget_money
    /\ AnyBelow(random_values, thresholds)

\* Mutant: the ceiling test is missing.
ReleaseCondition_NoCeiling(b, tx, dy, r_tx, thresholds, random_values) ==
    /\ WindowSpend(r_tx, dy) + tx.send_amount_usd <= b.budget_money
    /\ AnyBelow(random_values, thresholds)

\* The condition of the `if`, lines 211-213.
ReleaseCondition(b, tx, dy, r_tx, thresholds, random_values) ==
    /\ tx.send_amount_usd <= MAX_TX_AMOUNT
    /\ WindowSpend(r_tx, dy) + tx.send_amount_usd <= b.budget_money
    /\ AnyBelow(random_values, thresholds)

\* The outcomes of one call: a verdict with the arrays it was computed
\* from, or the exception that escaped (with the arrays built before it).
evaluate_if_released(b, tx, dy, h_tx, r_tx) ==
    LET th == Thresholds(b, tx, dy, h_tx)
    IN  IF ThresholdException(b, tx, dy, h_tx) # "none"
        THEN { [status |-> ThresholdException(b, tx, dy, h_tx),
                thresholds |-> <<>>, random_values |-> <<>>] }
        ELSE IF DrawException(b, h_tx) # "none"
        THEN { [status |-> DrawException(b, h_tx),
                thresholds |-> th, random_values |-> <<>>] }
        ELSE { [status |-> IF ReleaseCondition(b, tx, dy, r_tx, th, rv)
                           THEN "True" ELSE "False",
                thresholds |-> th, random_values |-> rv] :
               rv \in RandomValues(b, h_tx) }

Verdicts == {"True", "False"}

-----------------------------------------------------------------------------
(* print_results *)

\* released_tx.day.max(): NaN (here -1) on an empty frame.
MaxDayOf(s) == IF s = <<>> THEN -1 ELSE CHOOSE d \in Days(s) : \A e \in Days(s) : e <= d

\* Mutant: every release up to the day is counted, the window is forgotten.
outstanding_liability_Cumulative(released, dy) ==
    SumAmounts(SelectSeq(released, LAMBDA r : r.day <= dy))

outstanding_liability(released, dy) ==
    SumAmounts(SelectSeq(released,
        LAMBDA r : r.day >= Max(dy - BUDGET_DAYS, 1) /\ r.day < dy))

\* range(nan + 1) raises TypeError; the closing average divides the int 0
\* by zero when the last released day is BUDGET_DAYS * 2.
PrintResultsException(released) ==
    IF released = <<>> THEN "TypeError"
    ELSE IF MaxDayOf(released) = BUDGET_DAYS * 2 THEN "ZeroDivisionError"
    ELSE "none"

\* The per-day lines print_results prints before it returns or raises.
print_results(released) ==
    IF released = <<>> THEN <<>>
    ELSE [k \in 1..(MaxDayOf(released) + 1) |->
            outstanding_liability(released, k - 1)]

-----------------------------------------------------------------------------
(* The program: init_historical, then simulate, then print_results.       *)

Init ==
    /\ budget = ModuleBudget
    /\ historical_tx = <<>>
    /\ released_tx = <<>>
    /\ pc = "init_historical"
    /\ day = 1
    /\ i = 0
    /\ out = [op |-> "none"]

\* One pass of the inner loop of init_historical, lines 262-265; after the
\* last one simulate starts its day loop at historical_tx.day.max() + 1.
InitHistorical ==
    /\ pc = "init_historical"
    /\ \E tx \in Trasaction :
         /\ historical_tx' = AppendRecord(historical_tx, Record(tx, day))
         /\ out' = [op |-> "init_historical", tx |-> tx]
    /\ released_tx' = released_tx
    /\ budget' = budget
    /\ IF i + 1 < AVG_TX_COUNT_PER_DAY
       THEN /\ i' = i + 1
            /\ day' = day
            /\ pc' = pc
       ELSE IF day + 1 <= BUDGET_DAYS
       THEN /\ i' = 0
            /\ day' = day + 1
            /\ pc' = pc
       ELSE /\ i' = 0
            /\ day' = MaxDayOf(historical_tx') + 1
            /\ pc' = IF day' < DAYS_TO_SIMULATE THEN "simulate" ELSE "print_results"

\* One pass of the inner loop of simulate, lines 279-284.
Simulate ==
    /\ pc = "simulate"
    /\ budget' = budget
    /\ \E tx \in Trasaction :
       \E res \in evaluate_if_released(budget, tx, day, historical_tx, released_tx) :
         /\ out' = [op |-> "simulate", tx |-> tx, status |-> res.status]
         /\ IF res.status \notin Verdicts
            THEN /\ pc' = "Raised"
                 /\ UNCHANGED <<historical_tx, released_tx, day, i>>
            ELSE /\ released_tx' = IF res.status = "True"
                                   THEN AppendRecord(released_tx, Record(tx, day))
                                   ELSE released_tx
                 /\ historical_tx' = AppendRecord(historical_tx, Record(tx, day))
                 /\ IF i + 1 < AVG_TX_COUNT_PER_DAY
                    THEN /\ i' = i + 1
                         /\ day' = day
                         /\ pc' = pc
                    ELSE IF day + 1 < DAYS_TO_SIMULATE
                    THEN /\ i' = 0
                         /\ day' = day + 1
                         /\ pc' = pc
                    ELSE /\ i' = 0
                         /\ day' = day
                         /\ pc' = "print_results"

\* Lines 285-287.
PrintResults ==
    /\ pc = "print_results"
    /\ out' = [op |-> "print_results",
               status |-> PrintResultsException(released_tx),
               report |-> print_results(released_tx)]
    /\ pc' = IF PrintResultsException(released_tx) = "none" THEN "Done" ELSE "Raised"
    /\ UNCHANGED <<budget, historical_tx, released_tx, day, i>>

Next == InitHistorical \/ Simulate \/ PrintResults

Spec == Init /\ [][Next]_vars

\* The run as the interpreter executes it: a single sequential thread that
\* takes its next step whenever it has one.
SpecFair == Spec /\ WF_vars(Next)

-----------------------------------------------------------------------------
(* The Budget class driven directly: any sequence of add_defense and      *)
(* remove_defense calls on a fresh Budget.                                 *)

\* The (name, allocation in percent) arguments explored: the registrations
\* of lines 180-183, a fifth one of 1%, and the boundary allocations.
AddChoices ==
    { <<"d1", 10>>, <<"d2", 30>>, <<"d3", 55>>, <<"d4", 5>>, <<"d5", 1>>,
      <<"d1", 0>>, <<"d2", 60>>, <<"d4", 100>> }

RemoveChoices == Names \cup {"d5"}

InitBudget ==
    /\ budget \in { Budget(BUDGET_MONEY, BUDGET_DAYS), Budget(10000, 30) }
    /\ historical_tx = <<>>
    /\ released_tx = <<>>
    /\ pc = "budget"
    /\ day = 0
    /\ i = 0
    /\ out = [op |-> "none"]

\* One call of add_defense: it raises, or it appends the new Defense.
AddDefense ==
    /\ pc = "budget"
    /\ \E c \in AddChoices :
         /\ Len(budget.defenses) < MaxDefenses \/ AllocationOverflow(budget, c[2])
         /\ out' = [op |-> "add_defense", name |-> c[1], allocation |-> c[2],
                    raised |-> AllocationOverflow(budget, c[2])]
         /\ budget' = IF AllocationOverflow(budget, c[2]) THEN budget
                      ELSE add_defense(budget, c[1], c[2])
    /\ UNCHANGED <<historical_tx, released_tx, pc, day, i>>

\* One call of remove_defense.
RemoveDefense ==
    /\ pc = "budget"
    /\ \E name \in RemoveChoices :
         /\ out' = [op |-> "remove_defense", name |-> name,
                    warned |-> ~RemoveFound(budget, name),
                    removed |-> Len(budget.defenses)
                                  - Len(remove_defense(budget, name).defenses)]
         /\ budget' = remove_defense(budget, name)
    /\ UNCHANGED <<historical_tx, released_tx, pc, day, i>>

NextBudget == AddDefense \/ RemoveDefense

SpecBudget == InitBudget /\ [][NextBudget]_vars

-----------------------------------------------------------------------------
(* evaluate_if_released driven directly, on the module-level budget and   *)
(* on ledgers of at most MaxLedger rows kept in day order.                 *)

AllFlags(tx) == tx.d1 /\ tx.d2 /\ tx.d3 /\ tx.d4

HistoricalRows ==
    { Record(tx, d) : tx \in {t \in Trasaction : /\ t.d4
                                                  /\ t.send_amount_usd \in {1, MaxAmount}
                                                  /\ (AllFlags(t) \/ t.send_amount_usd = 1)},
                      d \in {1, MaxDay - 1} }

ReleasedRows ==
    { Record(tx, d) : tx \in {t \in Trasaction : /\ AllFlags(t)
                                                  /\ t.send_amount_usd = MAX_TX_AMOUNT},
                      d \in {1, MaxDay - 1} }

Ledgers(rows) ==
    { s \in UNION { [1..n -> rows] : n \in 0..MaxLedger } :
        \A k \in 1..(Len(s) - 1) : s[k].day <= s[k + 1].day }

InitEval ==
    /\ budget = ModuleBudget
    /\ historical_tx \in Ledgers(HistoricalRows)
    /\ released_tx \in Ledgers(ReleasedRows)
    /\ pc = "call"
    /\ day = 0
    /\ i = 0
    /\ out = [op |-> "none"]

\* Mutant: the function itself appends the released transaction to r_tx.
Evaluate_Appending ==
    /\ pc = "call"
    /\ \E tx \in Trasaction, dy \in 0..MaxDay :
       \E res \in evaluate_if_released(budget, tx, dy, historical_tx, released_tx) :
         /\ out' = [op |-> "evaluate_if_released", tx |-> tx, day |-> dy,
                    status |-> res.status, thresholds |-> res.thresholds,
                    random_values |-> res.random_values]
         /\ released_tx' = IF res.status = "True"
                           THEN AppendRecord(released_tx, Record(tx, dy))
                           ELSE released_tx
    /\ pc' = "returned"
    /\ UNCHANGED <<budget, historical_tx, day, i>>

\* One call evaluate_if_released(tx, dy, historical_tx, released_tx).
Evaluate ==
    /\ pc = "call"
    /\ \E tx \in Trasaction, dy \in 0..MaxDay :
       \E res \in evaluate_if_released(budget, tx, dy, historical_tx, released_tx) :
         out' = [op |-> "evaluate_if_released", tx |-> tx, day |-> dy,
                 status |-> res.status, thresholds |-> res.thresholds,
                 random_values |-> res.random_values]
    /\ pc' = "returned"
    /\ UNCHANGED <<budget, historical_tx, released_tx, day, i>>

\* One call defenses[k].average_historical_send_amount(historical_tx, dy).
AverageSendAmount ==
    /\ pc = "call"
    /\ \E k \in 1..Len(budget.defenses), dy \in 0..MaxDay :
         out' = [op |-> "average_historical_send_amount", defense |-> k,
                 day |-> dy,
                 result |-> average_historical_send_amount(
                                budget.defenses[k], historical_tx, dy)]
    /\ pc' = "returned"
    /\ UNCHANGED <<budget, historical_tx, released_tx, day, i>>

NextEval == Evaluate \/ AverageSendAmount

SpecEval == InitEval /\ [][NextEval]_vars

-----------------------------------------------------------------------------
(* Properties.  They are stated with their own sums and comparisons, not  *)
(* with the operators of the program above.                                *)

RECURSIVE SumOver(_, _)
SumOver(f, K) ==
    IF K = {} THEN 0
    ELSE LET k == CHOOSE x \in K : TRUE
         IN  f[k] + SumOver(f, K \ {k})

AmountsOf(ledger) == [k \in DOMAIN ledger |-> ledger[k].send_amount_usd]

\* Released dollars among the first n released rows whose day is in the
\* rolling window of day d.
RollingSum(n, d) ==
    SumOver(AmountsOf(released_tx),
            {k \in 1..n : released_tx[k].day >= Max(d - budget.budget_days, 1)})

\* draw < threshold, a NaN threshold comparing false.
DrawBelow(r, t) == t.kind = "num" /\ t.num - r * t.den > 0

DefenseCount == Len(budget.defenses)

Flagged(tx, k) == tx[budget.defenses[k].name]

\* C1. Budget invariant: at the current day the released dollars in the
\* rolling window never exceed total_money, and every release was appended
\* with the window sum of its own day, itself included, within total_money.
C1_BudgetInvariant ==
    /\ RollingSum(Len(released_tx), day) <= budget.budget_money
    /\ \A n \in DOMAIN released_tx :
         RollingSum(n, released_tx[n].day) <= budget.budget_money

\* C1 witness: a transaction under the ceiling is held on a day whose
\* window is too full to admit it.
C1_Witness ==
    /\ out.op = "simulate"
    /\ out.status = "False"
    /\ released_tx # <<>>
    /\ out.tx.send_amount_usd <= MAX_TX_AMOUNT
    /\ RollingSum(Len(released_tx), historical_tx[Len(historical_tx)].day)
         + out.tx.send_amount_usd > budget.budget_money

Evaluated == out.op = "evaluate_if_released"

\* Some registered defense drew below its threshold in the last call.
SomeDrawBelow ==
    \E k \in 1..DefenseCount :
        /\ k \in DOMAIN out.random_values
        /\ k \in DOMAIN out.thresholds
        /\ DrawBelow(out.random_values[k], out.thresholds[k])

\* C2. evaluate_if_released returns True if and only if the amount is
\* within MAX_TX_AMOUNT, the window spend plus the amount is within
\* total_money, and some registered defense drew below its threshold.
C2_VerdictIsConjunction ==
    Evaluated =>
        ( out.status = "True"
            <=> /\ out.tx.send_amount_usd <= MAX_TX_AMOUNT
                /\ RollingSum(Len(released_tx), out.day) + out.tx.send_amount_usd
                      <= budget.budget_money
                /\ SomeDrawBelow )

\* C2 witness: a release that fills the window exactly to total_money.
C2_Witness ==
    /\ Evaluated
    /\ out.status = "True"
    /\ released_tx # <<>>
    /\ RollingSum(Len(released_tx), out.day) + out.tx.send_amount_usd
          = budget.budget_money

\* C5. Release implies flagged: a released transaction has a registered
\* defense that flagged it, with a threshold above 0 and a draw below it; a
\* defense that did not flag the transaction has threshold 0, which no
\* draw (all are >= 0) is below; a transaction without a flag is not released.
C5_ReleaseImpliesFlagged ==
    Evaluated =>
        /\ out.status = "True" =>
              \E k \in 1..DefenseCount :
                  /\ Flagged(out.tx, k)
                  /\ out.thresholds[k].kind = "num"
                  /\ out.thresholds[k].num > 0
                  /\ DrawBelow(out.random_values[k], out.thresholds[k])
        /\ \A k \in DOMAIN out.thresholds :
              ~Flagged(out.tx, k) =>
                  /\ out.thresholds[k].kind = "num"
                  /\ out.thresholds[k].num = 0
                  /\ \A r \in 0..MaxDraw : ~DrawBelow(r, out.thresholds[k])
        /\ \A k \in DOMAIN out.random_values : out.random_values[k] >= 0
        /\ (\A k \in 1..DefenseCount : ~Flagged(out.tx, k)) => out.status # "True"

\* C5 witness: a transaction flagged by d4 alone is released while the
\* other three defenses hold threshold 0.
C5_Witness ==
    /\ Evaluated
    /\ out.status = "True"
    /\ out.tx.d4
    /\ ~out.tx.d1

\* C9 (as claimed). With an empty historical ledger a call for day 0
\* returns False (hold) without raising.
C9_EmptyLedgerHolds ==
    (Evaluated /\ historical_tx = <<>> /\ out.day = 0) => out.status = "False"

\* No historical row flagged by defense k qualifies for its average on the
\* day of the last call.
NoQualifyingRow(k) ==
    ~ \E m \in DOMAIN historical_tx :
          /\ historical_tx[m][budget.defenses[k].name]
          /\ historical_tx[m].day >= Max(out.day - budget.defenses[k].budget_days, 0)
          /\ historical_tx[m].send_amount_usd <= MAX_TX_AMOUNT

\* A defense other than k drew below its threshold in the last call.
OtherDrawBelow(k) ==
    \E j \in (DOMAIN out.random_values) \ {k} :
        DrawBelow(out.random_values[j], out.thresholds[j])

\* C10 (as claimed). On a non-empty historical ledger, in a call that
\* returns, a defense that flags the transaction and has no qualifying row
\* has threshold 0.
C10_EmptyWindowThresholdZero ==
    (Evaluated /\ historical_tx # <<>> /\ out.status \in Verdicts) =>
        \A k \in DOMAIN out.thresholds :
            (Flagged(out.tx, k) /\ NoQualifyingRow(k)) =>
                out.thresholds[k].kind = "num" /\ out.thresholds[k].num = 0

\* C10 (amended). On a non-empty historical ledger the threshold lookups
\* do not raise; a defense that flags the transaction and has no qualifying
\* row has threshold NaN, and a release then needs another defense's draw
\* below that defense's threshold.
C10_EmptyWindowThresholdNaN ==
    (Evaluated /\ historical_tx # <<>>) =>
        /\ Len(out.thresholds) = DefenseCount
        /\ \A k \in 1..DefenseCount :
              (Flagged(out.tx, k) /\ NoQualifyingRow(k)) =>
                  /\ out.thresholds[k].kind = NaN
                  /\ out.status = "True" => OtherDrawBelow(k)

\* C10 witness: a call returns a release through d4 while another flagging
\* defense has no qualifying row.
C10_Witness ==
    /\ Evaluated
    /\ out.status = "True"
    /\ \E k \in 1..DefenseCount :
          /\ Flagged(out.tx, k)
          /\ NoQualifyingRow(k)
          /\ out.thresholds[k].kind = NaN

\* C6. Ceiling respected: no row of the released ledger has an amount
\* above MAX_TX_AMOUNT.
C6_CeilingRespected ==
    \A k \in DOMAIN released_tx : released_tx[k].send_amount_usd <= MAX_TX_AMOUNT

\* C6 witness: a transaction above the ceiling, flagged by d4 alone, has
\* been evaluated and held on a day with room left in the window.
C6_Witness ==
    /\ out.op = "simulate"
    /\ out.status = "False"
    /\ out.tx.d4
    /\ ~out.tx.d1
    /\ out.tx.send_amount_usd > MAX_TX_AMOUNT
    /\ released_tx # <<>>
    /\ RollingSum(Len(released_tx), historical_tx[Len(historical_tx)].day)
          < budget.budget_money

IsPrefix(s, t) == Len(s) <= Len(t) /\ \A k \in DOMAIN s : t[k] = s[k]

\* One step as C7 describes it.
C7_Step ==
    /\ IsPrefix(historical_tx, historical_tx')
    /\ IsPrefix(released_tx, released_tx')
    /\ pc = "init_historical" =>
          /\ Len(historical_tx') = Len(historical_tx) + 1
          /\ released_tx' = released_tx
    /\ (pc = "simulate" /\ out'.status \in Verdicts) =>
          /\ Len(historical_tx') = Len(historical_tx) + 1
          /\ historical_tx'[Len(historical_tx')].day = day
          /\ out'.status = "True" => Len(released_tx') = Len(released_tx) + 1
          /\ out'.status = "False" => released_tx' = released_tx
    /\ Len(released_tx') > Len(released_tx) =>
          (pc = "simulate" /\ out'.status = "True")

C8_SomeFlagSet ==
    \A k \in DOMAIN historical_tx :
        \E n \in Names : historical_tx[k][n]

\* Hundredths of a dollar allocated to the registered defenses.
Allocated ==
    SumOver([k \in DOMAIN budget.defenses |-> budget.defenses[k].budget_money],
            DOMAIN budget.defenses)

\* C3, second half: a raising add_defense is one whose allocation would
\* push the allocated fraction above 1, and it leaves the Budget as it was.
C3_Step ==
    out'.op = "add_defense" =>
        /\ out'.raised => budget' = budget
        /\ budget' # budget =>
              /\ ~out'.raised
              /\ out'.allocation * budget.budget_money + Allocated
                    <= 100 * budget.budget_money

ScenarioAdds == << <<"d1", 10>>, <<"d2", 30>>, <<"d3", 55>>, <<"d4", 5>> >>

\* The Budget holds exactly the first n registrations of the scenario.
ScenarioPrefix(n) ==
    /\ budget.budget_money = 10000
    /\ budget.budget_days = 30
    /\ Len(budget.defenses) = n
    /\ \A k \in 1..n :
          /\ budget.defenses[k].name = ScenarioAdds[k][1]
          /\ budget.defenses[k].budget_money = ScenarioAdds[k][2] * 10000

\* One step as C4 describes it.
C4_Step ==
    out'.op = "add_defense" =>
        /\ (out'.allocation * budget.budget_money + Allocated
               = 100 * budget.budget_money)
             => ~out'.raised
        /\ \A n \in 0..3 :
             (ScenarioPrefix(n) /\ out'.name = ScenarioAdds[n + 1][1]
                                /\ out'.allocation = ScenarioAdds[n + 1][2])
               => (~out'.raised /\ ScenarioPrefix(n + 1)')
        /\ (ScenarioPrefix(4) /\ out'.name = "d5" /\ out'.allocation = 1)
             => (out'.raised /\ budget' = budget)

\* C4. An add_defense that brings the allocated fraction to exactly 1 is
\* accepted; on Budget(10000, 30) the additions d1=10%, d2=30%, d3=55%,
\* d4=5% succeed one after the other, budget_allocation() is then
\* (1.0, 0.0), and add_defense('d5', 0.01) raises.
C4_BoundaryAndScenario ==
    /\ [](ScenarioPrefix(4) => budget_allocation(budget) = <<100, 0>>)
    /\ [][C4_Step]_vars

\* C4 witness: the four registrations are in place and the fifth was
\* rejected.
C4_Witness ==
    /\ ScenarioPrefix(4)
    /\ out.op = "add_defense"
    /\ out.name = "d5"
    /\ out.raised

\* Some registered defense drew no flagged row in the historical ledger.
SomeDefenseUnflagged ==
    \E k \in 1..DefenseCount :
        ~ \E m \in DOMAIN historical_tx : historical_tx[m][budget.defenses[k].name]

\* C11 (as claimed). Graceful degradation: on a non-empty historical
\* ledger in which some registered defense has no flagged row, the call
\* still returns a verdict.
C11_GracefulDegradation ==
    (Evaluated /\ historical_tx # <<>> /\ SomeDefenseUnflagged)
        => out.status \in Verdicts

Registered(name) == \E k \in DOMAIN budget.defenses : budget.defenses[k].name = name

\* One step as C12 describes it.
C12_Step ==
    out'.op = "remove_defense" => (out'.warned <=> ~Registered(out'.name))

\* C12 (as claimed). remove_defense warns exactly when no registered
\* defense has the given name.
C12_WarnsIffUnknown == [][C12_Step]_vars

\* The sequence s without its first element named name.
RECURSIVE WithoutFirst(_, _)
WithoutFirst(s, name) ==
    IF s = <<>> THEN <<>>
    ELSE IF Head(s).name = name THEN Tail(s)
    ELSE <<Head(s)>> \o WithoutFirst(Tail(s), name)

\* The sequence s without any element named name.
RECURSIVE WithoutAll(_, _)
WithoutAll(s, name) ==
    IF s = <<>> THEN <<>>
    ELSE IF Head(s).name = name THEN WithoutAll(Tail(s), name)
    ELSE <<Head(s)>> \o WithoutAll(Tail(s), name)

\* C13 (as claimed). remove_defense(name) removes exactly the first
\* registered defense of that name; later ones of the same name stay.
C13_RemovesFirstOnly ==
    [][out'.op = "remove_defense" =>
          budget'.defenses = WithoutFirst(budget.defenses, out'.name)]_vars

\* C13 (amended). remove_defense(name) removes every registered defense of
\* that name; the others keep their order and their budgets.
C13_RemovesEvery ==
    [][out'.op = "remove_defense" =>
          /\ budget'.defenses = WithoutAll(budget.defenses, out'.name)
          /\ budget'.budget_money = budget.budget_money
          /\ budget'.budget_days = budget.budget_days]_vars

\* C13 witness: one call removed two defenses of the same name and left
\* another defense registered.
C13_Witness ==
    /\ out.op = "remove_defense"
    /\ out.removed = 2
    /\ budget.defenses # <<>>

\* Hundredths of a dollar allocated after the step.
AllocatedNext ==
    SumOver([k \in DOMAIN budget'.defenses |-> budget'.defenses[k].budget_money],
            DOMAIN budget'.defenses)

\* C14. Removing a name that no registered defense has leaves the Budget
\* (members, order, budgets, budget_allocation()) as it was, and no
\* remove_defense increases the allocated fraction.
C14_UnknownRemovalNoOp ==
    [][out'.op = "remove_defense" =>
          /\ ~Registered(out'.name) =>
                /\ budget' = budget
                /\ budget_allocation(budget') = budget_allocation(budget)
          /\ AllocatedNext <= Allocated]_vars

\* C14 witness: a call removed nothing from a Budget that has defenses.
C14_Witness ==
    /\ out.op = "remove_defense"
    /\ out.removed = 0
    /\ budget.defenses # <<>>

Averaged == out.op = "average_historical_send_amount"

\* Indices of the historical rows flagged by the defense of the last
\* average call, within the ceiling, with lo <= day of the row < hi.
AverageRows(lo, hi) ==
    {m \in DOMAIN historical_tx :
        /\ historical_tx[m][budget.defenses[out.defense].name]
        /\ historical_tx[m].send_amount_usd <= MAX_TX_AMOUNT
        /\ lo <= historical_tx[m].day
        /\ historical_tx[m].day < hi}

\* The result of the last average call is the mean amount of the rows K
\* (NaN when there is none).
ResultIsMeanOf(K) ==
    IF K = {} THEN out.result.kind = NaN
    ELSE /\ out.result.kind = "num"
         /\ out.result.num * Cardinality(K)
               = SumOver(AmountsOf(historical_tx), K) * out.result.den

WindowStart == Max(out.day - budget.defenses[out.defense].budget_days, 0)

LastLedgerDay == MaxDayOf(historical_tx)

\* C15 (as claimed). On a ledger whose rows are of the current day or
\* earlier, the average is over the flagged rows within the ceiling of the
\* half-open window [max(day - window_days, 0), day): rows of the current
\* day are excluded.
C15_AverageHalfOpenWindow ==
    (Averaged /\ historical_tx # <<>> /\ LastLedgerDay <= out.day)
        => ResultIsMeanOf(AverageRows(WindowStart, out.day))

\* C15 (amended). The average is over the flagged rows within the ceiling
\* whose day is >= max(day - window_days, 0); there is no upper end, so
\* the rows of the current day are included.
C15_AverageFromWindowStart ==
    (Averaged /\ historical_tx # <<>>)
        => ResultIsMeanOf(AverageRows(WindowStart, LastLedgerDay + 1))

\* C15 witness: an average was taken over an earlier row and a row of the
\* current day.
C15_Witness ==
    /\ Averaged
    /\ out.result.kind = "num"
    /\ LastLedgerDay = out.day
    /\ AverageRows(out.day, out.day + 1) # {}
    /\ AverageRows(WindowStart, out.day) # {}

\* Released dollars with lo <= day < hi.
ReleasedBetween(lo, hi) ==
    SumOver(AmountsOf(released_tx),
            {k \in DOMAIN released_tx :
                lo <= released_tx[k].day /\ released_tx[k].day < hi})

RowsOfDay(d) == Cardinality({k \in DOMAIN historical_tx : historical_tx[k].day = d})

\* One step as C17 describes it: the day never goes back and advances by
\* one at most, and a row is recorded on the day being processed.
C17_Step ==
    /\ day' >= day
    /\ day' <= day + 1
    /\ Len(historical_tx') > Len(historical_tx) =>
          /\ Len(historical_tx') = Len(historical_tx) + 1
          /\ historical_tx'[Len(historical_tx')].day = day

\* C17. Termination: days are processed in increasing order, one
\* transaction at a time; the run ends, in Done or in a raised exception;
\* a run that reaches Done has processed the days BUDGET_DAYS+1 ..
\* DAYS_TO_SIMULATE-1 with AVG_TX_COUNT_PER_DAY transactions each.
C17_Termination ==
    /\ <>(pc \in {"Done", "Raised"})
    /\ [](pc = "Done" =>
            /\ \A d \in 1..(DAYS_TO_SIMULATE - 1) :
                  RowsOfDay(d) = AVG_TX_COUNT_PER_DAY
            /\ Len(historical_tx) = (DAYS_TO_SIMULATE - 1) * AVG_TX_COUNT_PER_DAY)
    /\ [][C17_Step]_vars

\* C17 witness: the run is Done, with the last simulated day recorded.
C17_Witness ==
    /\ pc = "Done"
    /\ RowsOfDay(DAYS_TO_SIMULATE - 1) = AVG_TX_COUNT_PER_DAY
    /\ RowsOfDay(BUDGET_DAYS + 1) = AVG_TX_COUNT_PER_DAY

\* C18. evaluate_if_released is read-only: whatever it returns or raises,
\* the historical ledger, the released ledger and the Budget with its
\* defense registry are after the call what they were before it.
C18_EvaluateReadOnly ==
    [][out'.op = "evaluate_if_released" =>
          /\ historical_tx' = historical_tx
          /\ released_tx' = released_tx
          /\ budget' = budget]_vars

\* C18 witness: a call has returned True and the released ledger it was
\* given is still empty.
C18_Witness ==
    /\ Evaluated
    /\ out.status = "True"
    /\ released_tx = <<>>
    /\ historical_tx # <<>>

\* r is obtained from h by deleting rows: each row of r is matched, in
\* order, with an equal row of h (same day, amount and flags).
RECURSIVE IsSubseq(_, _)
IsSubseq(r, h) ==
    IF r = <<>> THEN TRUE
    ELSE IF h = <<>> THEN FALSE
    ELSE IF Head(r) = Head(h) THEN IsSubseq(Tail(r), Tail(h))
    ELSE IsSubseq(r, Tail(h))

DaysOrdered(frame) ==
    /\ \A k \in 1..Len(frame) : frame[k].day >= 1
    /\ \A k \in 1..(Len(frame) - 1) : frame[k].day <= frame[k + 1].day

\* C19. Between transaction steps of the run the released ledger is a
\* sub-sequence of the historical ledger, and in both ledgers every day is
\* at least 1 and the days never decrease in append order.
C19_ReleasedSubsequenceOfHistorical ==
    /\ IsSubseq(released_tx, historical_tx)
    /\ DaysOrdered(historical_tx)
    /\ DaysOrdered(released_tx)

\* C19 witness: two releases on different days with a held transaction of
\* the simulation recorded on a day between them.
C19_Witness ==
    /\ Len(released_tx) >= 2
    /\ released_tx[1].day < released_tx[2].day
    /\ \E k \in 1..Len(historical_tx) :
          /\ historical_tx[k].day > released_tx[1].day
          /\ historical_tx[k].day < released_tx[2].day

====
